---------------------------- MODULE Spec2Model ----------------------------
(* skrunk-feeds (src/main.py): the poll loop, the feed enumerator and the  *)
(* per-feed chain resolution of fetch_next_document, with the Skrunk store *)
(* and the Reddit origin as the environment.                               *)
(*                                                                         *)
(* Strings are sequences of tokens.  A token is one character ("[", "n",   *)
(* "!") or a chunk of characters that the code never looks inside          *)
(* ("reddit", "p1", "hello": runs of word characters; "https://": the      *)
(* scheme prefix of a URL).                                                *)
EXTENDS Integers, Sequences, FiniteSets, TLC

VARIABLES
    docs,       \* store: feed id -> documents of the feed, in creation order
    upstream,   \* Reddit: post id -> the post as the origin serves it now
    edits,      \* number of upstream edits made so far
    cycle,      \* number of the poll cycle of main's while loop
    pc,         \* main: "count", "loop", "crashed"; marker search: "re", "searched"
    total,      \* get_feeds: total
    offset,     \* get_feeds: i, the start of the next batch
    pending,    \* get_feeds: active feeds of the current batch not yet yielded
    batches,    \* getFeeds calls of this cycle: <<start, count, succeeded>>
    attempted,  \* feed ids handed to fetch_next_document in this cycle
    last,       \* what the most recent fetch_next_document did
    prev,       \* summary of the previous fetch_next_document of last's feed
    hist,       \* feed id -> summary of its most recent fetch_next_document
    creates,    \* feed id -> urls of all createFeedDocument calls issued
    allOk,      \* every fetch and store call so far succeeded
    failures,   \* number of calls the environment has failed so far
    m_in,       \* marker search: the link under test
    m_out       \* marker search: result of the search on it

vars == <<docs, upstream, edits, cycle, pc, total, offset, pending, batches,
          attempted, last, prev, hist, creates, allOk, failures, m_in,
          m_out>>

-----------------------------------------------------------------------------
(* Bounds *)

MaxCycles == 2
MaxEdits == 1
MaxFailures == 1

-----------------------------------------------------------------------------
(* Values *)

None == "None"
NoMatch == <<"NoMatch">>
NoBody == <<>>
NoId == 0

U1 == <<"https://", "reddit", ".", "com", "/", "p1">>
U2 == <<"https://", "www", ".", "REDDIT", ".", "com", "/", "p2">>
UNoHost == <<"/", "p1">>
UOther == <<"https://", "example", ".", "com", "/", "p1">>
UShort == <<"https://", "com", "/", "p1">>

PostIds == {"p1", "p2"}

Max(a, b) == IF a > b THEN a ELSE b

-----------------------------------------------------------------------------
\* re.search of the successor marker pattern: "[", N or n, "ext", any number
\* of characters that are neither word characters nor "]", "]", "(", the
\* captured group of any number of characters other than ")", and ")".

\* tokens all of whose characters are in the class [^\w\]]
TrailClass == {"!", " ", ".", "/", "[", "(", ")", ":"}

\* first index >= i whose token is not in S, Len(s)+1 if there is none
RECURSIVE SkipWhile(_, _, _)
SkipWhile(s, i, S) ==
    IF i > Len(s) THEN Len(s) + 1
    ELSE IF s[i] \in S THEN SkipWhile(s, i + 1, S)
    ELSE i

\* first index >= i whose token is c, 0 if there is none
RECURSIVE IndexOf(_, _, _)
IndexOf(s, i, c) ==
    IF i > Len(s) THEN 0
    ELSE IF s[i] = c THEN i
    ELSE IndexOf(s, i + 1, c)

At(s, i) == IF i >= 1 /\ i <= Len(s) THEN s[i] ELSE None

\* e, x, t of the pattern were the search made with re.IGNORECASE
RestAnyCase == <<{"e", "E"}, {"x", "X"}, {"t", "T"}>>

\* [Nn] and e, x, t of the pattern
FirstLetter == {"N", "n"}
Rest == <<{"e"}, {"x"}, {"t"}>>

\* the match of the pattern that starts at index i: group(1), or NoMatch
MatchAt(body, i) ==
    LET j == SkipWhile(body, i + 5, TrailClass) IN
    IF /\ At(body, i) = "["
       /\ At(body, i + 1) \in FirstLetter
       /\ \A k \in 1..3 : At(body, i + 1 + k) \in Rest[k]
       /\ At(body, j) = "]"
       /\ At(body, j + 1) = "("
       /\ IndexOf(body, j + 2, ")") # 0
    THEN SubSeq(body, j + 2, IndexOf(body, j + 2, ")") - 1)
    ELSE NoMatch

\* re.search: the leftmost match
RECURSIVE SearchFrom(_, _)
SearchFrom(body, i) ==
    IF i > Len(body) THEN NoMatch
    ELSE IF MatchAt(body, i) # NoMatch THEN MatchAt(body, i)
    ELSE SearchFrom(body, i + 1)

SearchNext(body) == SearchFrom(body, 1)

-----------------------------------------------------------------------------
(* Origin resolution: urlparse(feed['url']).hostname, split('.'), [-2::] *)

Lower(c) == CASE c = "REDDIT" -> "reddit" [] c = "COM" -> "com" [] OTHER -> c

\* urlparse(url).netloc: what follows the scheme's "//" up to the next "/"
Netloc(url) ==
    IF At(url, 1) = "https://"
    THEN LET k == IndexOf(url, 2, "/")
         IN  SubSeq(url, 2, IF k = 0 THEN Len(url) ELSE k - 1)
    ELSE <<>>

\* urlparse(url).hostname: the lower-cased host; <<>> stands for None
NoHostname == <<>>
Hostname(url) == [k \in DOMAIN Netloc(url) |-> Lower(Netloc(url)[k])]

\* hostname.split('.')
RECURSIVE Split(_)
Split(s) ==
    LET k == IndexOf(s, 1, ".")
    IN  IF k = 0 THEN <<s>>
        ELSE <<SubSeq(s, 1, k - 1)>> \o Split(SubSeq(s, k + 1, Len(s)))

\* addr[-2::]
LastTwo(addr) == SubSeq(addr, Max(1, Len(addr) - 1), Len(addr))

KnownKinds == {"markdown_recursive"}

KindValid(feed) == feed.kind \in KnownKinds

\* the origin were only the last label compared (addr[-1:] == ['com'])
OriginLastLabel(feed) ==
    LET hostname == Hostname(feed.url)
        addr == Split(hostname)
    IN  IF hostname = NoHostname THEN None
        ELSE IF addr[Len(addr)] = <<"com">> THEN "reddit"
        ELSE None

\* the origin of the feed's url: "reddit", or None when the code logs an
\* error and returns
Origin(feed) ==
    LET hostname == Hostname(feed.url)
        addr == Split(hostname)
    IN  IF hostname = NoHostname THEN None
        ELSE IF Len(addr) < 1 THEN None
        ELSE IF LastTwo(addr) = << <<"reddit">>, <<"com">> >> THEN "reddit"
        ELSE None

-----------------------------------------------------------------------------
(* The store's feeds (static) and the bodies the origin may serve *)

NumFeeds == 22

feed_batch_size == 20

Filler(i) ==
    [id |-> i, name |-> "filler", creator |-> "nobody", inactive |-> TRUE,
     kind |-> "markdown_recursive", url |-> U1, notify |-> FALSE]

\* the feed the store lists at position i (positions count from 1)
FeedAt(i) ==
    CASE i = 1 -> [Filler(i) EXCEPT !.name = "chain", !.creator = "alice",
                                    !.inactive = FALSE, !.notify = TRUE]
      [] i = 2 -> [Filler(i) EXCEPT !.inactive = FALSE, !.kind = "rss",
                                    !.notify = TRUE]
      [] i = 3 -> [Filler(i) EXCEPT !.inactive = FALSE, !.url = UNoHost]
      [] i = 4 -> [Filler(i) EXCEPT !.inactive = FALSE, !.url = UOther]
      [] i = 5 -> [Filler(i) EXCEPT !.inactive = FALSE, !.url = UShort]
      [] i = 21 -> [Filler(i) EXCEPT !.name = "quiet", !.creator = "bob",
                                     !.inactive = FALSE, !.url = U2]
      [] OTHER -> Filler(i)

FeedIds == 1..NumFeeds

\* the feeds get_feeds can yield
ActiveIds == {i \in FeedIds : ~FeedAt(i).inactive}

Link(text, url) == <<"[">> \o text \o <<"]", "(">> \o url \o <<")">>

BodyPlain == <<"hello">>
BodyEdited == <<"hello", "!">>
BodyNext2 == <<"hello", " ">> \o Link(<<"n", "e", "x", "t">>, U2)
BodyNext1 ==
    Link(<<"N", "e", "x", "t", "!">>, U1) \o <<" ">>
    \o Link(<<"n", "e", "x", "t">>, U2)

Bodies == {BodyPlain, BodyEdited, BodyNext2, BodyNext1}

Post(title, body, author, created_utc) ==
    [exists |-> TRUE, title |-> title, body |-> body, author |-> author,
     created_utc |-> created_utc]

-----------------------------------------------------------------------------
(* The store and the origin, as fetch_next_document uses them *)

\* getFeedDocuments {feed, start 0, count 1, sorting created descending}
getFeedDocuments(feed_id) ==
    IF Len(docs[feed_id]) = 0 THEN <<>>
    ELSE <<docs[feed_id][Len(docs[feed_id])]>>

NextDocId ==
    1 + Cardinality(UNION {{<<f, i>> : i \in DOMAIN docs[f]} : f \in FeedIds})

\* createFeedDocument answering with a FeedDocument
StoreCreate(ds, document) ==
    Append(ds, [id |-> NextDocId, feed |-> document.feed,
                author |-> document.author, posted |-> document.posted,
                body |-> document.body, title |-> document.title,
                url |-> document.url])

\* updateFeedDocument answering with a FeedDocument
StoreUpdate(ds, args) ==
    [i \in DOMAIN ds |->
        IF ds[i].id = args.id THEN [ds[i] EXCEPT !.body = args.body] ELSE ds[i]]

\* the post id praw takes from a submission url, None if it finds none
SubmissionId(url) ==
    IF Len(url) > 0 /\ url[Len(url)] \in PostIds THEN url[Len(url)] ELSE None

\* datetime.fromtimestamp(ts, utc).strftime('%Y-%m-%d %H:%M:%S'), for a
\* timestamp of January 1970: <<year, month, day, hour, minute, second>>
FormatPosted(ts) ==
    <<1970, 1, 1 + (ts \div 86400), (ts \div 3600) % 24, (ts \div 60) % 60,
      ts % 60>>

\* the fetch were a post without author given the author None
FetchErrorAuthorDefaulted(url, reach) ==
    IF reach # "ok" THEN "RequestException"
    ELSE IF SubmissionId(url) = None THEN "InvalidURL"
    ELSE IF ~upstream[SubmissionId(url)].exists THEN "NotFound"
    ELSE None

\* API.reddit.submission(url=next_url) and the reads of post.title,
\* post.selftext, post.author.name, post.created_utc: the exception raised,
\* or None
FetchError(url, reach) ==
    IF reach # "ok" THEN "RequestException"
    ELSE IF SubmissionId(url) = None THEN "InvalidURL"
    ELSE IF ~upstream[SubmissionId(url)].exists THEN "NotFound"
    ELSE IF upstream[SubmissionId(url)].author = None THEN "AttributeError"
    ELSE None

-----------------------------------------------------------------------------
(* fetch_next_document *)

Call(op, args) == [op |-> op, args |-> args]

NullRun ==
    [feed |-> 0, cycle |-> 0, edits |-> 0, stage |-> "none",
     lookup |-> "none", head |-> <<>>, next_url |-> <<>>,
     document_id |-> NoId, document_body |-> NoBody,
     fetch |-> "none", document |-> <<>>, write |-> "none",
     notify |-> "none", calls |-> <<>>, exc |-> None,
     before |-> <<>>, after |-> <<>>]

\* the navigation were the head re-checked whatever its body holds
NavigateIgnoresMarker(feed, documents) ==
    IF Len(documents) > 0
    THEN [next_url |-> documents[1].url,
          document_body |-> documents[1].body,
          document_id |-> documents[1].id]
    ELSE [next_url |-> feed.url, document_body |-> NoBody,
          document_id |-> NoId]

\* lines 167-199: the url to fetch and, in update mode, the head's id and body
Navigate(feed, documents) ==
    IF Len(documents) > 0
    THEN LET doc == documents[1]
             m == SearchNext(doc.body)
         IN  IF m # NoMatch
             THEN [next_url |-> m, document_body |-> NoBody,
                   document_id |-> NoId]
             ELSE [next_url |-> doc.url, document_body |-> doc.body,
                   document_id |-> doc.id]
    ELSE [next_url |-> feed.url, document_body |-> NoBody,
          document_id |-> NoId]

\* the document were the placeholder body never replaced by post.selftext
BuildDocumentNoBody(feed, next_url, post) ==
    [feed |-> feed.id, author |-> post.author,
     posted |-> FormatPosted(post.created_utc),
     body |-> <<"[ERROR: NO BODY]">>, title |-> post.title, url |-> next_url]

\* lines 203-223: the document built from the fetched post
BuildDocument(feed, next_url, post) ==
    [feed |-> feed.id, author |-> post.author,
     posted |-> FormatPosted(post.created_utc), body |-> post.body,
     title |-> post.title, url |-> next_url]

\* the test were "document_id is True", which no id satisfies
TruthyIsTrue(document_id) == FALSE

\* "if document_id:"
Truthy(document_id) == document_id # NoId

\* the comparison were it made by identity ("is"), which two strings read
\* from two responses never satisfy
BodyUnchangedByIdentity(document_body, document) == FALSE

\* the comparison were it to hold also for a body the feed's previous run
\* has already sent with updateFeedDocument
BodyUnchangedOrSent(document_body, document) ==
    \/ document_body = document.body
    \/ /\ hist[document.feed].wcall # <<>>
       /\ hist[document.feed].wcall[1].op = "updateFeedDocument"
       /\ hist[document.feed].wcall[1].args.body = document.body

\* "if document_body == document['body']"
BodyUnchanged(document_body, document) == document_body = document.body

\* the arguments were the whole fetched document sent with the id
UpdateArgsWholeDocument(document_id, document) ==
    [id |-> document_id, body |-> document.body, author |-> document.author,
     posted |-> document.posted, title |-> document.title]

\* the arguments of updateFeedDocument
UpdateArgs(document_id, document) ==
    [id |-> document_id, body |-> document.body]

\* "if feed['notify']", evaluated once createFeedDocument has returned
NotifyAfterCreate(feed, result) == feed.notify

NotifyArgs(feed) ==
    [username |-> feed.creator, title |-> feed.name,
     body |-> "A new post has been added to your feed.", category |-> "feed"]

\* the commit were a failed write issued a second time before returning
CommitRetrying(feed, nav, document, e, run) ==
    LET failed == e.write # "FeedDocument"
        issue(calls, c) == IF failed THEN Append(Append(calls, c), c)
                           ELSE Append(calls, c)
    IN
    IF Truthy(nav.document_id)
    THEN IF BodyUnchanged(nav.document_body, document)
         THEN [run EXCEPT !.stage = "unchanged"]
         ELSE LET args == UpdateArgs(nav.document_id, document)
              IN  [run EXCEPT
                     !.stage = "update",
                     !.calls = issue(@, Call("updateFeedDocument", args)),
                     !.write = e.write,
                     !.after = IF e.write = "FeedDocument"
                               THEN StoreUpdate(@, args) ELSE @]
    ELSE LET created ==
                 [run EXCEPT
                    !.stage = "create",
                    !.calls = issue(@, Call("createFeedDocument", document)),
                    !.write = e.write,
                    !.after = IF e.write = "FeedDocument"
                              THEN StoreCreate(@, document) ELSE @]
         IN  IF e.write # "SessionError" /\ NotifyAfterCreate(feed, e.write)
             THEN [created EXCEPT
                     !.calls = Append(@, Call("sendNotification",
                                              NotifyArgs(feed))),
                     !.notify = e.notify]
             ELSE created

\* the commit were the created document removed again when the
\* notification that follows it fails
CommitRollingBack(feed, nav, document, e, run) ==
    IF Truthy(nav.document_id)
    THEN IF BodyUnchanged(nav.document_body, document)
         THEN [run EXCEPT !.stage = "unchanged"]
         ELSE LET args == UpdateArgs(nav.document_id, document)
              IN  [run EXCEPT
                     !.stage = "update",
                     !.calls = Append(@, Call("updateFeedDocument", args)),
                     !.write = e.write,
                     !.after = IF e.write = "FeedDocument"
                               THEN StoreUpdate(@, args) ELSE @]
    ELSE LET created ==
                 [run EXCEPT
                    !.stage = "create",
                    !.calls = Append(@, Call("createFeedDocument", document)),
                    !.write = e.write,
                    !.after = IF e.write = "FeedDocument"
                              THEN StoreCreate(@, document) ELSE @]
         IN  IF e.write # "SessionError" /\ NotifyAfterCreate(feed, e.write)
             THEN [created EXCEPT
                     !.calls = Append(@, Call("sendNotification",
                                              NotifyArgs(feed))),
                     !.notify = e.notify,
                     !.after = IF e.notify = "SessionError"
                               THEN run.after ELSE @]
             ELSE created

\* lines 228-259, given the navigation and the built document
Commit(feed, nav, document, e, run) ==
    IF Truthy(nav.document_id)
    THEN IF BodyUnchanged(nav.document_body, document)
         THEN [run EXCEPT !.stage = "unchanged"]
         ELSE LET args == UpdateArgs(nav.document_id, document)
              IN  [run EXCEPT
                     !.stage = "update",
                     !.calls = Append(@, Call("updateFeedDocument", args)),
                     !.write = e.write,
                     !.after = IF e.write = "FeedDocument"
                               THEN StoreUpdate(@, args) ELSE @]
    ELSE LET created ==
                 [run EXCEPT
                    !.stage = "create",
                    !.calls = Append(@, Call("createFeedDocument", document)),
                    !.write = e.write,
                    !.after = IF e.write = "FeedDocument"
                              THEN StoreCreate(@, document) ELSE @]
         IN  IF e.write # "SessionError" /\ NotifyAfterCreate(feed, e.write)
             THEN [created EXCEPT
                     !.calls = Append(@, Call("sendNotification",
                                              NotifyArgs(feed))),
                     !.notify = e.notify]
             ELSE created

\* lines 201-226, given the navigation
FetchAndCommit(feed, nav, e, run) ==
    LET fetching ==
            [run EXCEPT
               !.next_url = nav.next_url,
               !.document_id = nav.document_id,
               !.document_body = nav.document_body,
               !.calls = Append(@, Call("submission",
                                        [url |-> nav.next_url])),
               !.fetch = IF FetchError(nav.next_url, e.reach) = None
                         THEN "ok" ELSE FetchError(nav.next_url, e.reach)]
    IN  IF FetchError(nav.next_url, e.reach) # None
        THEN [fetching EXCEPT !.stage = "fetch",
                              !.exc = FetchError(nav.next_url, e.reach)]
        ELSE LET document ==
                     BuildDocument(feed, nav.next_url,
                                   upstream[SubmissionId(nav.next_url)])
             IN  Commit(feed, nav, document, e,
                        [fetching EXCEPT !.document = document])

\* the whole of fetch_next_document(feed, api): what it called, what it left
\* in the store (after) and the exception it raised (exc), under the
\* environment's answers e
fetch_next_document(feed, e) ==
    LET run == [NullRun EXCEPT !.feed = feed.id, !.cycle = cycle,
                               !.edits = edits,
                               !.before = docs[feed.id],
                               !.after = docs[feed.id]]
        lookupCall ==
            Call("getFeedDocuments",
                 [feed |-> feed.id, start |-> 0, count |-> 1,
                  sorting |-> [fields |-> <<"created">>,
                               descending |-> TRUE]])
    IN  IF ~KindValid(feed) THEN [run EXCEPT !.stage = "kind"]
        ELSE IF Origin(feed) = None THEN [run EXCEPT !.stage = "origin"]
        ELSE IF e.lookup = "SessionError"
        THEN [run EXCEPT !.stage = "lookup", !.calls = <<lookupCall>>,
                         !.lookup = "SessionError"]
        ELSE FetchAndCommit(feed,
                            Navigate(feed, getFeedDocuments(feed.id)), e,
                            [run EXCEPT !.calls = <<lookupCall>>,
                                        !.lookup = "ok",
                                        !.head = getFeedDocuments(feed.id)])

-----------------------------------------------------------------------------
(* main, get_feeds and the environment *)

\* the answers of the store and of the network to one fetch_next_document
Answers ==
    [lookup : {"ok", "SessionError"}, reach : {"ok", "unreachable"},
     write : {"FeedDocument", "BadUserInput", "SessionError"},
     notify : {"ok", "SessionError"}]

\* the answers in which a call that fails or raises is the last call made
Env ==
    {e \in Answers :
        /\ e.lookup # "ok" =>
              e.reach = "ok" /\ e.write = "FeedDocument" /\ e.notify = "ok"
        /\ e.reach # "ok" => e.write = "FeedDocument" /\ e.notify = "ok"
        /\ e.write = "SessionError" => e.notify = "ok"}

Count(b) == IF b THEN 1 ELSE 0

\* calls of a run that the environment failed
RunFailures(r) ==
    Count(r.lookup = "SessionError") + Count(r.fetch = "RequestException")
    + Count(r.write \in {"BadUserInput", "SessionError"})
    + Count(r.notify = "SessionError")

\* every fetch and store call of the run succeeded
RunOk(r) ==
    /\ r.lookup \in {"none", "ok"}
    /\ r.fetch \in {"none", "ok"}
    /\ r.write \in {"none", "FeedDocument"}
    /\ r.notify \in {"none", "ok"}

\* e answers only the calls the run made (the other answers are "ok")
Consulted(e, r) ==
    /\ r.lookup = "none" => e.lookup = "ok"
    /\ r.fetch = "none" => e.reach = "ok"
    /\ r.write = "none" => e.write = "FeedDocument"
    /\ r.notify = "none" => e.notify = "ok"

\* what is kept of a run to compare the feed's next run with it
Summary(r) ==
    [feed |-> r.feed, cycle |-> r.cycle, edits |-> r.edits,
     stage |-> r.stage, lookup |-> r.lookup, document_id |-> r.document_id,
     fetch |-> r.fetch, write |-> r.write, notify |-> r.notify,
     wcall |-> SelectSeq(r.calls,
                         LAMBDA c : c.op \in {"createFeedDocument",
                                              "updateFeedDocument"}),
     created |-> IF Len(r.after) > Len(r.before)
                 THEN r.after[Len(r.after)].id ELSE NoId]

\* the handler of main were it "except SessionError"
CaughtSessionErrorOnly(exc) == exc = "SessionError"

\* "except Exception" of main
Caught(exc) ==
    exc \in {"SessionError", "RequestException", "InvalidURL", "NotFound",
             "AttributeError"}

\* urls of the createFeedDocument calls of a run
CreatedUrls(r) ==
    LET cs == SelectSeq(r.calls, LAMBDA c : c.op = "createFeedDocument")
    IN  [k \in DOMAIN cs |-> cs[k].args.url]

\* the document an earlier cycle created for feed 21 from the post p1, whose
\* marker led the chain to the post p2; the post has been edited since
OlderOfQuiet ==
    [id |-> 1, feed |-> 21, author |-> "u1", posted |-> FormatPosted(90061),
     body |-> Link(<<"n", "e", "x", "t">>, U2), title |-> "A", url |-> U1]

\* the document an earlier cycle created for feed 21 from the post p2
HeadOfQuiet ==
    [id |-> 2, feed |-> 21, author |-> "u2", posted |-> FormatPosted(3600),
     body |-> BodyPlain, title |-> "B", url |-> U2]

NoLink == [pre |-> <<>>, word |-> <<>>, trail |-> <<>>, url |-> <<>>]

Init ==
    /\ docs = [f \in FeedIds |-> IF f = 21 THEN <<OlderOfQuiet, HeadOfQuiet>>
                                    ELSE <<>>]
    /\ upstream = [p \in PostIds |->
                     IF p = "p1" THEN Post("A", BodyNext2, "u1", 90061)
                     ELSE Post("B", BodyPlain, "u2", 3600)]
    /\ edits = 0
    /\ cycle = 1
    /\ pc = "count"
    /\ total = 0
    /\ offset = 0
    /\ pending = <<>>
    /\ batches = <<>>
    /\ attempted = <<>>
    /\ last = NullRun
    /\ prev = Summary(NullRun)
    /\ hist = [f \in ActiveIds |-> Summary(NullRun)]
    /\ creates = [f \in FeedIds |-> <<>>]
    /\ allOk = TRUE
    /\ failures = 0
    /\ m_in = NoLink
    /\ m_out = NoMatch

\* countFeeds were a failed count taken as one batch of feeds
CountFeedsDefaultTotal ==
    /\ pc = "count"
    /\ \E ok \in BOOLEAN :
        /\ failures + Count(~ok) <= MaxFailures
        /\ total' = IF ok THEN NumFeeds ELSE feed_batch_size
        /\ failures' = failures + Count(~ok)
        /\ allOk' = (allOk /\ ok)
    /\ offset' = 0
    /\ pending' = <<>>
    /\ batches' = <<>>
    /\ attempted' = <<>>
    /\ pc' = "loop"
    /\ UNCHANGED <<docs, upstream, edits, cycle, last, prev, hist, creates,
                   m_in, m_out>>

\* get_feeds, lines 109-113: total = api.call('countFeeds')
CountFeeds ==
    /\ pc = "count"
    /\ \E ok \in BOOLEAN :
        /\ failures + Count(~ok) <= MaxFailures
        /\ total' = IF ok THEN NumFeeds ELSE 0
        /\ failures' = failures + Count(~ok)
        /\ allOk' = (allOk /\ ok)
    /\ offset' = 0
    /\ pending' = <<>>
    /\ batches' = <<>>
    /\ attempted' = <<>>
    /\ pc' = "loop"
    /\ UNCHANGED <<docs, upstream, edits, cycle, last, prev, hist, creates,
                   m_in, m_out>>

\* the filter were it to drop also the feeds whose last run found their
\* chain unchanged
ActiveOfLiveChains(start, count) ==
    LET hi == IF start + count < NumFeeds THEN start + count ELSE NumFeeds
        ids == [k \in 1..(hi - start) |-> start + k]
    IN  SelectSeq(ids, LAMBDA i : /\ ~FeedAt(i).inactive
                                  /\ hist[i].stage # "unchanged")

\* the ids of the active feeds among the store's feeds start+1 .. start+count
ActiveOf(start, count) ==
    LET hi == IF start + count < NumFeeds THEN start + count ELSE NumFeeds
        ids == [k \in 1..(hi - start) |-> start + k]
    IN  SelectSeq(ids, LAMBDA i : ~FeedAt(i).inactive)

\* get_feeds were its try around the whole for loop: the first failing batch
\* ends the enumeration
GetFeedsAborting ==
    /\ pc = "loop"
    /\ pending = <<>>
    /\ offset < total
    /\ \E ok \in BOOLEAN :
        /\ failures + Count(~ok) <= MaxFailures
        /\ batches' = Append(batches, [start |-> offset,
                                       count |-> feed_batch_size, ok |-> ok])
        /\ pending' = IF ok THEN ActiveOf(offset, feed_batch_size) ELSE <<>>
        /\ failures' = failures + Count(~ok)
        /\ allOk' = (allOk /\ ok)
        /\ offset' = IF ok THEN offset + feed_batch_size ELSE total
    /\ UNCHANGED <<docs, upstream, edits, cycle, pc, total, attempted, last,
                   prev, hist, creates, m_in, m_out>>

\* get_feeds, lines 116-125: one iteration of the for loop up to its yields
GetFeeds ==
    /\ pc = "loop"
    /\ pending = <<>>
    /\ offset < total
    /\ \E ok \in BOOLEAN :
        /\ failures + Count(~ok) <= MaxFailures
        /\ batches' = Append(batches, [start |-> offset,
                                       count |-> feed_batch_size, ok |-> ok])
        /\ pending' = IF ok THEN ActiveOf(offset, feed_batch_size) ELSE <<>>
        /\ failures' = failures + Count(~ok)
        /\ allOk' = (allOk /\ ok)
    /\ offset' = offset + feed_batch_size
    /\ UNCHANGED <<docs, upstream, edits, cycle, pc, total, attempted, last,
                   prev, hist, creates, m_in, m_out>>

\* main, lines 283-291: the loop body for the next feed get_feeds yields
ProcessFeed ==
    /\ pc = "loop"
    /\ pending # <<>>
    /\ \E e \in Env :
        \E r \in {fetch_next_document(FeedAt(Head(pending)), e)} :
            /\ Consulted(e, r)
            /\ failures + RunFailures(r) <= MaxFailures
            /\ docs' = [docs EXCEPT ![r.feed] = r.after]
            /\ last' = r
            /\ prev' = hist[r.feed]
            /\ hist' = [hist EXCEPT ![r.feed] = Summary(r)]
            /\ creates' = [creates EXCEPT ![r.feed] = @ \o CreatedUrls(r)]
            /\ allOk' = (allOk /\ RunOk(r))
            /\ failures' = failures + RunFailures(r)
            /\ attempted' = Append(attempted, r.feed)
            /\ pc' = IF r.exc = None \/ Caught(r.exc) THEN "loop"
                     ELSE "crashed"
    /\ pending' = Tail(pending)
    /\ UNCHANGED <<upstream, edits, cycle, total, offset, batches, m_in,
                   m_out>>

\* main were it to leave the for loop for the sleep before get_feeds is
\* exhausted
SleepEarly ==
    /\ pc = "loop"
    /\ cycle < MaxCycles
    /\ cycle' = cycle + 1
    /\ pc' = "count"
    /\ UNCHANGED <<docs, upstream, edits, total, offset, pending, batches,
                   attempted, last, prev, hist, creates, allOk, failures,
                   m_in, m_out>>

\* main, line 293: time.sleep(FETCH_DELAY) once get_feeds is exhausted
Sleep ==
    /\ pc = "loop"
    /\ pending = <<>>
    /\ offset >= total
    /\ cycle < MaxCycles
    /\ cycle' = cycle + 1
    /\ pc' = "count"
    /\ UNCHANGED <<docs, upstream, edits, total, offset, pending, batches,
                   attempted, last, prev, hist, creates, allOk, failures,
                   m_in, m_out>>

\* the origin: a post's author edits its text (while main sleeps)
EditPost ==
    /\ pc = "count"
    /\ edits < MaxEdits
    /\ \E p \in PostIds, b \in Bodies :
        /\ upstream[p].exists
        /\ upstream[p].body # b
        /\ upstream' = [upstream EXCEPT ![p].body = b]
    /\ edits' = edits + 1
    /\ UNCHANGED <<docs, cycle, pc, total, offset, pending, batches,
                   attempted, last, prev, hist, creates, allOk, failures,
                   m_in, m_out>>

\* the origin: a post is removed
RemovePost ==
    /\ pc = "count"
    /\ edits < MaxEdits
    /\ \E p \in PostIds :
        /\ upstream[p].exists
        /\ upstream' = [upstream EXCEPT ![p].exists = FALSE]
    /\ edits' = edits + 1
    /\ UNCHANGED <<docs, cycle, pc, total, offset, pending, batches,
                   attempted, last, prev, hist, creates, allOk, failures,
                   m_in, m_out>>

\* the origin: a post's author deletes the account (post.author is None)
RemoveAuthor ==
    /\ pc = "count"
    /\ edits < MaxEdits
    /\ \E p \in PostIds :
        /\ upstream[p].exists
        /\ upstream[p].author # None
        /\ upstream' = [upstream EXCEPT ![p].author = None]
    /\ edits' = edits + 1
    /\ UNCHANGED <<docs, cycle, pc, total, offset, pending, batches,
                   attempted, last, prev, hist, creates, allOk, failures,
                   m_in, m_out>>

Next ==
    \/ CountFeeds
    \/ GetFeeds
    \/ ProcessFeed
    \/ Sleep
    \/ EditPost
    \/ RemovePost
    \/ RemoveAuthor

Spec == Init /\ [][Next]_vars

-----------------------------------------------------------------------------
(* The marker search on its own: every link of LinkInputs is searched once *)

Words ==
    {<<a, b, c, d>> : a \in {"n", "N"}, b \in {"e", "E"}, c \in {"x", "X"},
                      d \in {"t", "T"}}

Trails == {<<>>, <<"!">>, <<"!", " ">>, <<"s">>, <<"!", "s">>, <<"[">>}

Prefixes == {<<>>, <<"hello", " ">>, Link(<<"n", "e", "x", "t", "s">>, U2)}

LinkInputs == [pre : Prefixes, word : Words, trail : Trails, url : {U1, U2}]

\* the body that holds the link: prefix, then [word trail](url)
BodyOf(in) == in.pre \o Link(in.word \o in.trail, in.url)

InitRe ==
    /\ docs = [f \in FeedIds |-> <<>>]
    /\ upstream = [p \in PostIds |-> Post("A", BodyPlain, "u1", 0)]
    /\ edits = 0
    /\ cycle = 1
    /\ pc = "re"
    /\ total = 0
    /\ offset = 0
    /\ pending = <<>>
    /\ batches = <<>>
    /\ attempted = <<>>
    /\ last = NullRun
    /\ prev = Summary(NullRun)
    /\ hist = [f \in ActiveIds |-> Summary(NullRun)]
    /\ creates = [f \in FeedIds |-> <<>>]
    /\ allOk = TRUE
    /\ failures = 0
    /\ m_in \in LinkInputs
    /\ m_out = NoMatch

\* line 193-196: m = re.search(pattern, doc['body']); m.group(1)
SearchMarker ==
    /\ pc = "re"
    /\ m_out' = SearchNext(BodyOf(m_in))
    /\ pc' = "searched"
    /\ UNCHANGED <<docs, upstream, edits, cycle, total, offset, pending,
                   batches, attempted, last, prev, hist, creates, allOk,
                   failures, m_in>>

NextRe == SearchMarker

SpecRe == InitRe /\ [][NextRe]_vars

-----------------------------------------------------------------------------
(* Properties *)

WriteOps == {"createFeedDocument", "updateFeedDocument", "sendNotification"}

CallsOf(r, ops) == SelectSeq(r.calls, LAMBDA c : c.op \in ops)

Range(q) == {q[k] : k \in DOMAIN q}

NoDuplicates(q) == \A i, j \in DOMAIN q : i # j => q[i] # q[j]

\* a fetch_next_document has run and last describes it
Ran == last.feed # 0

\* the feed's chain head in the store when the run started
HeadBefore(r) == r.before[Len(r.before)]

\* get_feeds is exhausted: the for loop of main has ended
CycleDone == pc = "loop" /\ pending = <<>> /\ offset >= total

\* C1: with every fetch and store call succeeding, no feed gets two
\* createFeedDocument calls that carry the same url.
C1_CommittedExactlyOnce ==
    allOk => \A f \in FeedIds : NoDuplicates(creates[f])

\* C2: in every run a sendNotification call is issued if and only if
\* createFeedDocument was called, returned a FeedDocument and the feed's
\* notify flag is true.
C2_NotifyIffCreated ==
    Ran =>
        (CallsOf(last, {"sendNotification"}) # <<>>
         <=> /\ last.stage = "create"
             /\ last.write = "FeedDocument"
             /\ FeedAt(last.feed).notify)

\* the head of the run's feed holds a successor marker
HeadHasMarker(r) ==
    r.before # <<>> /\ SearchNext(HeadBefore(r).body) # NoMatch

\* C3 as stated: whenever the head holds a successor marker, the run fetches
\* the marker's target, calls createFeedDocument with it as url, does not
\* fetch the head's own url and does not call updateFeedDocument.
C3_MarkerAlwaysCreates ==
    (Ran /\ HeadHasMarker(last)) =>
        LET target == SearchNext(HeadBefore(last).body)
        IN  /\ \E c \in Range(last.calls) :
                c.op = "submission" /\ c.args.url = target
            /\ \E c \in Range(last.calls) :
                c.op = "createFeedDocument" /\ c.args.url = target
            /\ \A c \in Range(last.calls) :
                c.op = "submission" => c.args.url # HeadBefore(last).url
            /\ CallsOf(last, {"updateFeedDocument"}) = <<>>

\* C3 amended: whenever the lookup returns a head that holds a successor
\* marker, the run fetches the target of the first marker and nothing else,
\* calls no updateFeedDocument, and calls createFeedDocument, once and with
\* the target as url, exactly when the fetch succeeds.
C3_MarkerPrecedence ==
    (Ran /\ last.lookup = "ok" /\ HeadHasMarker(last)) =>
        LET target == SearchNext(HeadBefore(last).body)
            made == CallsOf(last, {"createFeedDocument"})
        IN  /\ CallsOf(last, {"submission"})
                 = <<Call("submission", [url |-> target])>>
            /\ CallsOf(last, {"updateFeedDocument"}) = <<>>
            /\ last.fetch = "ok" => Len(made) = 1 /\ made[1].args.url = target
            /\ last.fetch # "ok" => made = <<>>

\* the head held two markers and the document was created from the first
C3_Witness ==
    /\ Ran
    /\ last.lookup = "ok"
    /\ last.before # <<>>
    /\ HeadBefore(last).body = BodyNext1
    /\ last.stage = "create"
    /\ last.write = "FeedDocument"
    /\ last.document.url = U1

\* the characters "optionally followed by" allows after the word
NonWordNonBracket == {"!", " "}
WordTokens == {"s"}

Resolvable(feed) ==
    /\ feed.kind = "markdown_recursive"
    /\ Hostname(feed.url) # NoHostname
    /\ LastTwo(Split(Hostname(feed.url))) = << <<"reddit">>, <<"com">> >>

\* C5 as stated: for a resolvable feed without documents the run issues
\* exactly one createFeedDocument, with the feed's url, and no
\* updateFeedDocument.
C5_AlwaysCreatesFirst ==
    (Ran /\ Resolvable(FeedAt(last.feed)) /\ last.before = <<>>) =>
        /\ Len(CallsOf(last, {"createFeedDocument"})) = 1
        /\ CallsOf(last, {"createFeedDocument"})[1].args.url
             = FeedAt(last.feed).url
        /\ CallsOf(last, {"updateFeedDocument"}) = <<>>

\* C5 amended: for a resolvable feed without documents, when the document
\* lookup and the fetch succeed, the run issues exactly one
\* createFeedDocument, whose url is the feed's url and whose feed, author,
\* posted, body and title are the feed id and the values of the post, and
\* no updateFeedDocument.
C5_CreatesFirstDocument ==
    (/\ Ran
     /\ Resolvable(FeedAt(last.feed))
     /\ last.before = <<>>
     /\ last.lookup = "ok"
     /\ last.fetch = "ok") =>
        LET feed == FeedAt(last.feed)
            made == CallsOf(last, {"createFeedDocument"})
            post == upstream[SubmissionId(feed.url)]
        IN  /\ Len(made) = 1
            /\ made[1].args.url = feed.url
            /\ made[1].args.feed = feed.id
            /\ CallsOf(last, {"updateFeedDocument"}) = <<>>
            /\ CallsOf(last, {"submission"})
                 = <<Call("submission", [url |-> feed.url])>>
            /\ edits = last.edits =>
                 made[1].args
                   = [feed |-> feed.id, author |-> post.author,
                      posted |-> FormatPosted(post.created_utc),
                      body |-> post.body, title |-> post.title,
                      url |-> feed.url]

\* the first document of feed 1 was created from the post at the feed's url
C5_Witness ==
    /\ Ran
    /\ last.feed = 1
    /\ last.before = <<>>
    /\ last.write = "FeedDocument"
    /\ Len(docs[1]) = 1
    /\ docs[1][1].url = U1
    /\ docs[1][1].posted = <<1970, 1, 2, 1, 1, 1>>


StoreWrites(r) == CallsOf(r, WriteOps)

\* last and prev are runs of one feed in two consecutive cycles, both in
\* update mode, and the origin's content did not change between them
TwoUpdateRuns ==
    /\ Ran
    /\ prev.feed = last.feed
    /\ prev.document_id # NoId
    /\ last.document_id # NoId
    /\ last.cycle = prev.cycle + 1
    /\ last.edits = prev.edits

\* C6 as stated: the second of two consecutive update-mode runs with no
\* upstream change between them issues no write call.
C6_SecondRunSilent == TwoUpdateRuns => StoreWrites(last) = <<>>

\* C6 amended: when the first run left the stored body equal to the upstream
\* body (it found the body unchanged, or its updateFeedDocument returned a
\* FeedDocument), the second of two consecutive update-mode runs with no
\* upstream change between them issues no write call.
C6_UpdateIdempotent ==
    (/\ TwoUpdateRuns
     /\ \/ prev.stage = "unchanged"
        \/ prev.stage = "update" /\ prev.write = "FeedDocument") =>
        StoreWrites(last) = <<>>

\* an update that succeeded is followed by a run that finds nothing to do
C6_Witness ==
    /\ TwoUpdateRuns
    /\ prev.stage = "update"
    /\ prev.write = "FeedDocument"
    /\ last.fetch = "ok"
    /\ last.stage = "unchanged"

\* the run was in update mode and the body it fetched differs from the
\* stored body of the head
UpdateModeChanged(r) ==
    /\ r.lookup = "ok"
    /\ r.before # <<>>
    /\ ~HeadHasMarker(r)
    /\ r.fetch = "ok"
    /\ r.document.body # HeadBefore(r).body

\* C7: in update mode, when the fetched body differs from the stored body,
\* the only write call is one updateFeedDocument carrying the head's id and
\* the new body and nothing else; no document is added, and author, posted,
\* title, url and id of every document of the feed stay as they were.
C7_UpdateBodyOnly ==
    (Ran /\ UpdateModeChanged(last)) =>
        /\ StoreWrites(last)
             = <<Call("updateFeedDocument",
                      [id |-> HeadBefore(last).id,
                       body |-> last.document.body])>>
        /\ edits = last.edits =>
             last.document.body
               = upstream[SubmissionId(HeadBefore(last).url)].body
        /\ Len(last.after) = Len(last.before)
        /\ \A i \in DOMAIN last.before :
             [last.after[i] EXCEPT !.body = <<>>]
               = [last.before[i] EXCEPT !.body = <<>>]
        /\ docs[last.feed] = last.after

\* the stored head took the edited body
C7_Witness ==
    /\ Ran
    /\ UpdateModeChanged(last)
    /\ last.write = "FeedDocument"
    /\ HeadBefore(last).body = BodyPlain
    /\ docs[last.feed][Len(docs[last.feed])].body = BodyEdited

\* C8: whatever a feed's run does (error return, session error, exception),
\* main goes on to the feeds that follow it in the cycle, in order, and
\* never leaves its loop.
C8_FailureIsolated ==
    /\ [][(pc = "loop" /\ pending # <<>>) =>
            /\ pc' = "loop"
            /\ pending' = Tail(pending)
            /\ attempted' = Append(attempted, Head(pending))]_vars
    /\ [](pc # "crashed")
    /\ [](CycleDone /\ (\A b \in Range(batches) : b.ok) /\ total = NumFeeds
            => Range(attempted) = ActiveIds)

\* feed 1's fetch raised in cycle 1, feed 21 was processed after it in the
\* same cycle, and cycle 2 has begun
C8_Witness ==
    /\ hist[1].cycle = 1
    /\ hist[1].fetch = "RequestException"
    /\ hist[21].cycle = 1
    /\ cycle = 2

\* the feed fails origin resolution: unknown kind, no hostname, or a
\* hostname whose last two labels are not (reddit, com)
Unresolvable(feed) ==
    \/ feed.kind # "markdown_recursive"
    \/ Hostname(feed.url) = NoHostname
    \/ LastTwo(Split(Hostname(feed.url))) # << <<"reddit">>, <<"com">> >>

\* C9: the run of an unresolvable feed makes no call at all (no lookup, no
\* fetch, no write) and leaves the feed's documents as they were; the feed
\* is handed to fetch_next_document again in every cycle that enumerates it.
C9_UnresolvableUntouched ==
    /\ (Ran /\ Unresolvable(FeedAt(last.feed))) =>
          /\ last.calls = <<>>
          /\ last.after = last.before
          /\ docs[last.feed] = last.before
    /\ (CycleDone /\ (\A b \in Range(batches) : b.ok) /\ total = NumFeeds) =>
          \A f \in ActiveIds :
              Unresolvable(FeedAt(f)) => f \in Range(attempted)

\* the feed at example.com was rejected again in the second cycle
C9_Witness ==
    /\ Ran
    /\ last.feed = 4
    /\ last.cycle = 2
    /\ last.stage = "origin"
    /\ last.calls = <<>>

\* the fetch of the run failed: the origin was unreachable, or the url names
\* no post, a removed post or a post without author
FetchFailed(r) ==
    /\ CallsOf(r, {"submission"}) # <<>>
    /\ LET url == CallsOf(r, {"submission"})[1].args.url
       IN  \/ r.fetch = "RequestException"
           \/ /\ edits = r.edits
              /\ \/ SubmissionId(url) = None
                 \/ ~upstream[SubmissionId(url)].exists
                 \/ upstream[SubmissionId(url)].author = None

\* C10: when the document lookup raises a session error or the fetch fails,
\* the run issues no createFeedDocument, updateFeedDocument or
\* sendNotification and the feed's documents stay as they were.
C10_NoPartialCommit ==
    (Ran /\ (last.lookup = "SessionError" \/ FetchFailed(last))) =>
        /\ StoreWrites(last) = <<>>
        /\ last.after = last.before
        /\ docs[last.feed] = last.before

\* the post to fetch for a feed that has a head has lost its author
C10_Witness ==
    /\ Ran
    /\ last.before # <<>>
    /\ last.fetch = "AttributeError"
    /\ FetchFailed(last)

\* createFeedDocument and updateFeedDocument calls of a run
DocWrites(r) ==
    CallsOf(r, {"createFeedDocument", "updateFeedDocument"})

\* C11: in every cycle each feed is handed to fetch_next_document at most
\* once, and a run issues at most one document write: one createFeedDocument
\* or one updateFeedDocument, never both and never the same call twice, also
\* when the write raises a session error or returns a non-document type.
C11_AtMostOneWrite ==
    /\ NoDuplicates(attempted)
    /\ Ran => Len(DocWrites(last)) <= 1

\* a run whose only document write failed
C11_Witness ==
    /\ Ran
    /\ last.write \in {"SessionError", "BadUserInput"}
    /\ Len(DocWrites(last)) = 1

\* C12: no step removes a document or changes the order or the ids of the
\* documents a feed has; and after a run whose createFeedDocument succeeded
\* and whose sendNotification raised, the created document is stored, and
\* the feed's next run, when its lookup returns, has it as chain head.
C12_NeverRolledBack ==
    /\ [][\A f \in FeedIds :
            /\ Len(docs'[f]) >= Len(docs[f])
            /\ \A i \in DOMAIN docs[f] : docs'[f][i].id = docs[f][i].id]_vars
    /\ []((Ran /\ last.stage = "create" /\ last.write = "FeedDocument"
              /\ last.notify = "SessionError") =>
            /\ Len(last.after) = Len(last.before) + 1
            /\ last.after[Len(last.after)].url = last.document.url
            /\ last.after[Len(last.after)].body = last.document.body)
    /\ []((Ran /\ prev.created # NoId /\ prev.notify = "SessionError"
              /\ last.lookup = "ok") =>
            /\ last.head # <<>>
            /\ last.head[1].id = prev.created
            /\ HeadBefore(last).id = prev.created)

\* the run that follows a create whose notification failed finds the created
\* document as head
C12_Witness ==
    /\ Ran
    /\ prev.created # NoId
    /\ prev.notify = "SessionError"
    /\ last.cycle = prev.cycle + 1
    /\ last.lookup = "ok"
    /\ last.head # <<>>
    /\ last.head[1].id = prev.created

\* the feeds of the store's positions b.start+1 .. b.start+b.count whose
\* inactive flag is false, in the store's order
ActiveInBatch(b) ==
    SelectSeq([k \in 1..NumFeeds |-> k],
              LAMBDA i : /\ i > b.start
                         /\ i <= b.start + b.count
                         /\ ~FeedAt(i).inactive)

\* the feeds the batches bs yield: those of the batches that succeeded
RECURSIVE Yielded(_)
Yielded(bs) ==
    IF bs = <<>> THEN <<>>
    ELSE (IF Head(bs).ok THEN ActiveInBatch(Head(bs)) ELSE <<>>)
         \o Yielded(Tail(bs))

\* C13: when a cycle ends, every active feed of every batch that was
\* returned in it has been handed to fetch_next_document in that cycle,
\* whatever its earlier runs did.
C13_AttemptedEveryCycle ==
    CycleDone =>
        \A b \in Range(batches) :
            b.ok => \A f \in Range(ActiveInBatch(b)) : hist[f].cycle = cycle

\* feed 21, whose chain had nothing new in cycle 1, was re-checked in
\* cycle 2, and feed 1 was attempted in cycle 2 as well
C13_Witness ==
    /\ CycleDone
    /\ cycle = 2
    /\ last.feed = 21
    /\ last.cycle = 2
    /\ last.stage = "unchanged"
    /\ prev.cycle = 1
    /\ prev.stage = "unchanged"
    /\ hist[1].cycle = 2

\* number of batches of feed_batch_size that cover t feeds
BatchesFor(t) == (t + feed_batch_size - 1) \div feed_batch_size

\* C14: the getFeeds calls of a cycle are made at the offsets 0, 20, 40, ...
\* below the total, each for 20 feeds, whether or not earlier ones failed;
\* the feeds handed to fetch_next_document, followed by those still to be
\* handed over, are the active feeds of the batches that succeeded, in the
\* store's order; at the end of the cycle ceil(total/20) calls were made.
C14_BatchesCoverTotal ==
    pc = "loop" =>
        /\ \A k \in DOMAIN batches :
              /\ batches[k].start = (k - 1) * feed_batch_size
              /\ batches[k].start < total
              /\ batches[k].count = feed_batch_size
        /\ attempted \o pending = Yielded(batches)
        /\ CycleDone =>
              /\ Len(batches) = BatchesFor(total)
              /\ attempted = Yielded(batches)

\* the first batch failed, the second was still requested and its active
\* feed was processed
C14_Witness ==
    /\ CycleDone
    /\ Len(batches) = 2
    /\ ~batches[1].ok
    /\ batches[2].ok
    /\ attempted = <<21>>

\* C15: a countFeeds that fails leaves total = 0; a cycle with total = 0
\* makes no getFeeds call and hands no feed to fetch_next_document, and its
\* only step is the sleep that starts the next cycle at countFeeds, with the
\* store untouched.
C15_CountFailureSkipsCycle ==
    /\ [][(pc = "count" /\ pc' = "loop" /\ failures' # failures)
            => total' = 0]_vars
    /\ []((pc = "loop" /\ total = 0) =>
            batches = <<>> /\ attempted = <<>> /\ pending = <<>>)
    /\ [][(pc = "loop" /\ total = 0) =>
            /\ pc' = "count"
            /\ cycle' = cycle + 1
            /\ docs' = docs
            /\ creates' = creates
            /\ last' = last]_vars
    /\ [][(pc = "count" /\ pc' # "count") =>
            pc' = "loop" /\ batches' = <<>> /\ cycle' = cycle]_vars

\* countFeeds failed in cycle 1, nothing was processed in it, and cycle 2
\* counted again and is processing feeds
C15_Witness ==
    /\ cycle = 2
    /\ pc = "loop"
    /\ total = NumFeeds
    /\ failures = 1
    /\ attempted # <<>>
    /\ \A f \in ActiveIds : hist[f].cycle # 1

\* C16: feeds are handed to fetch_next_document one per step and in the
\* store's order; the cycle number changes only by one, only when get_feeds
\* is exhausted and every feed it yielded has been attempted; countFeeds of
\* the next cycle is called only in such a state; no run belongs to a cycle
\* later than the current one.
C16_NoOverlappingCycles ==
    /\ [](\A i, j \in DOMAIN attempted :
            i < j => attempted[i] < attempted[j])
    /\ [][attempted' # attempted =>
            \/ attempted' = <<>>
            \/ /\ pending # <<>>
               /\ attempted' = Append(attempted, Head(pending))]_vars
    /\ [][cycle' # cycle =>
            /\ cycle' = cycle + 1
            /\ CycleDone
            /\ Len(batches) = BatchesFor(total)
            /\ attempted = Yielded(batches)]_vars
    /\ [][(pc = "count" /\ pc' = "loop") =>
            pending = <<>> /\ offset >= total]_vars
    /\ [](\A f \in ActiveIds : hist[f].cycle <= cycle)

\* cycle 2 is under way after a cycle 1 that attempted every active feed
C16_Witness ==
    /\ cycle = 2
    /\ pc = "loop"
    /\ attempted = <<1, 2, 3, 4, 5>>
    /\ hist[21].cycle = 1

\* last is the run of its feed in the cycle that follows the cycle of prev
NextCycleRun == Ran /\ prev.feed = last.feed /\ last.cycle = prev.cycle + 1

\* C17: when a run's createFeedDocument or updateFeedDocument failed
\* (session error or non-document result), nothing was edited upstream since
\* and the feed's run of the next cycle gets its lookup and its fetch
\* answered, that run issues the same document write again: the same
\* operation with the same arguments.
C17_FailedWriteReissued ==
    (/\ NextCycleRun
     /\ prev.write \in {"SessionError", "BadUserInput"}
     /\ last.edits = prev.edits
     /\ last.lookup = "ok"
     /\ last.fetch = "ok") =>
        /\ prev.wcall # <<>>
        /\ DocWrites(last) = prev.wcall

\* an update that failed in cycle 1 was sent again, with success, in cycle 2
C17_Witness ==
    /\ NextCycleRun
    /\ prev.stage = "update"
    /\ prev.write \in {"SessionError", "BadUserInput"}
    /\ last.edits = prev.edits
    /\ last.stage = "update"
    /\ last.write = "FeedDocument"
    /\ DocWrites(last) = prev.wcall

C19_AdvanceAfterEdit ==
    /\ (/\ Ran
        /\ last.lookup = "ok"
        /\ last.before # <<>>
        /\ ~HeadHasMarker(last)
        /\ last.fetch = "ok"
        /\ SearchNext(last.document.body) # NoMatch) =>
            /\ CallsOf(last, WriteOps)
                 = <<Call("updateFeedDocument",
                          [id |-> HeadBefore(last).id,
                           body |-> last.document.body])>>
            /\ last.write = "FeedDocument" =>
                  /\ Len(last.after) = Len(last.before)
                  /\ last.after[Len(last.after)].body = last.document.body
    /\ (/\ NextCycleRun
        /\ prev.stage = "update"
        /\ prev.write = "FeedDocument"
        /\ SearchNext(prev.wcall[1].args.body) # NoMatch
        /\ last.lookup = "ok") =>
            /\ HeadBefore(last).id = prev.document_id
            /\ HeadBefore(last).body = prev.wcall[1].args.body
            /\ CallsOf(last, {"updateFeedDocument"}) = <<>>
            /\ last.fetch = "ok" =>
                  /\ Len(DocWrites(last)) = 1
                  /\ DocWrites(last)[1].op = "createFeedDocument"
                  /\ DocWrites(last)[1].args.url
                       = SearchNext(prev.wcall[1].args.body)
    /\ (Ran /\ last.before # <<>>) =>
            \A c \in Range(CallsOf(last, {"createFeedDocument"})) :
                /\ HeadHasMarker(last)
                /\ c.args.url = SearchNext(HeadBefore(last).body)

\* the post of feed 21's head was edited to hold a marker; cycle 1 updated
\* the head, cycle 2 created the successor, every call succeeding
C19_Witness ==
    /\ NextCycleRun
    /\ allOk
    /\ last.feed = 21
    /\ prev.cycle = 1
    /\ prev.stage = "update"
    /\ prev.write = "FeedDocument"
    /\ last.stage = "create"
    /\ last.write = "FeedDocument"
    /\ Len(last.after) = Len(last.before) + 1
    /\ last.after[Len(last.after)].url = SearchNext(HeadBefore(last).body)

=============================================================================
